---- MODULE Spec2Model ----
(***************************************************************************)
(* Model of zip_chunker.py: a folder's files are compressed to temporary   *)
(* staging files by a process pool (compress_one), the resulting records   *)
(* are bin-packed by compressed size (ZipChunker.bin_pack_files) and each   *)
(* bin is written to its own zip container (ZipChunker.write_bins).  The    *)
(* whole run happens inside `with ZipChunker(...) as chunker`, whose        *)
(* __exit__ removes the staging files registered in self.temp_files.        *)
(***************************************************************************)
EXTENDS Integers, Sequences, FiniteSets, TLC

\* ---------------------------------------------------------------- bounds
\* At most MaxFiles files are found under the folder.  A file is named by
\* its rank 1..nfiles in the ascending order of the relative paths.
MaxFiles == 3

\* Compressed sizes (bytes) a file may have, and the limits tried.
Sizes == {100, 300, 600}

MaxChunkSizes == {100, 700, 1100}

VARIABLES
    max_chunk_size, \* self.max_chunk_size
    nfiles,         \* number of files walk_files yields
    size,           \* size[f]: len(zlib.compress(data)) of file f
    pc,             \* position of the main process
    future,         \* future[f]: state of the task submitted for file f
    collected,      \* futures the as_completed loop has handled
    staged,         \* staging files (*.zipchunk) present on disk
    temp_files,     \* self.temp_files
    results,        \* results of compress_to_temp_parallel
    todo,           \* records bin_pack_files has still to place
    bins,           \* bins of bin_pack_files
    wi,             \* write_bins: 1-based index of the current bin
    wk,             \* write_bins: members of the current bin written so far
    wopen,          \* write_bins: a ZipFile is open for the current bin
    containers,     \* output folder: zip path -> [entries, closed]
    exc,            \* exception propagating out of run, or "none"
    log,            \* lines printed
    runReturn       \* values run() hands back to its caller (<<>>: None)

vars == <<max_chunk_size, nfiles, size, pc, future, collected, staged,
          temp_files, results, todo, bins, wi, wk, wopen, containers, exc,
          log, runReturn>>

Files == 1 .. nfiles

\* ------------------------------------------------------------- helpers
\* estimate_zip_overhead(file_count, avg_name_len=50)
estimate_zip_overhead(file_count) == file_count * (30 + 46 + 50) + 22

\* The dictionary compress_one returns for file f.  The arcname is the
\* relative path (its rank), the staging file has a fresh name of its own.
Record(f) ==
    [arcname |-> f, compressed_path |-> <<"zipchunk", f>>, size |-> size[f]]

\* Mutant of ZipPath: the bin index is left out of the name.
ZipPathNoIndex(i) == <<"base", "_part", 1, ".zip">>

\* f"{self.base_name}_part{i}.zip" in the output folder
ZipPath(i) == <<"base", "_part", i, ".zip">>

LogLine(kind, arg) == [kind |-> kind, arg |-> arg]

\* Byte strings are kept as the content they carry and the encodings
\* applied to it, innermost first: the bytes of file f are
\* [data |-> f, layers |-> <<>>].
Data(f) == [data |-> f, layers |-> <<>>]

\* zlib.compress(data, level=6): a zlib stream around the data.
ZlibCompress(b) == [b EXCEPT !.layers = Append(@, "zlib")]

\* The raw deflate stream zipfile makes of the bytes of a ZIP_DEFLATED entry.
Deflate(b) == [b EXCEPT !.layers = Append(@, "deflate")]

\* What reading a ZIP_DEFLATED entry back gives: the raw deflate stream is
\* undone, once; bytes that are no raw deflate stream cannot be read.
Inflate(b) ==
    IF b.layers # <<>> /\ b.layers[Len(b.layers)] = "deflate"
    THEN [b EXCEPT !.layers = SubSeq(@, 1, Len(@) - 1)]
    ELSE [data |-> 0, layers |-> <<"unreadable">>]

\* zlib.crc32(b) & 0xffffffff, kept as the bytes it was computed over.
Crc32(b) == [crc_of |-> b]

\* The ZipInfo compress_one fills in for file f (lines 41-47).
ZipInfo(f) ==
    [filename      |-> f,
     compress_type |-> "ZIP_DEFLATED",
     compress_size |-> size[f],
     CRC           |-> Crc32(Data(f))]

\* The bytes compress_one wrote to the staging file of the given name
\* (lines 38, 50).
StagedBytes(path) == ZlibCompress(Data(path[2]))

\* zipf.writestr(zinfo, data): the entry is written under zinfo's name and
\* compress_type; writestr runs the bytes it is given through the
\* compressor of that type and records the CRC of the bytes it is given,
\* overwriting the CRC (and the sizes) zinfo came with.
Writestr(zinfo, data) ==
    [filename      |-> zinfo.filename,
     compress_type |-> zinfo.compress_type,
     payload       |-> IF zinfo.compress_type = "ZIP_DEFLATED"
                       THEN Deflate(data) ELSE data,
     CRC           |-> Crc32(data)]

\* sorted(files, key=lambda x: x['size'], reverse=True): a stable sort,
\* records of equal size keep the order they have in files.
RECURSIVE InsertBySize(_, _)
InsertBySize(s, x) ==
    IF s = <<>> THEN <<x>>
    ELSE IF Head(s).size >= x.size
         THEN <<Head(s)>> \o InsertBySize(Tail(s), x)
         ELSE <<x>> \o s

\* Mutant of SortedBySizeDesc: the records are not sorted at all.
SortedNotAtAll(s) == s

\* Mutant of SortedBySizeDesc: reverse=True is missing, the records come
\* smallest first.
RECURSIVE SortedBySizeAsc(_)
SortedBySizeAsc(s) ==
    IF s = <<>> THEN <<>>
    ELSE LET rest == SortedBySizeAsc(SubSeq(s, 1, Len(s) - 1))
             x    == s[Len(s)]
             k    == Cardinality({i \in 1 .. Len(rest) : rest[i].size <= x.size})
         IN  SubSeq(rest, 1, k) \o <<x>> \o SubSeq(rest, k + 1, Len(rest))

RECURSIVE SortedBySizeDesc(_)
SortedBySizeDesc(s) ==
    IF s = <<>> THEN <<>>
    ELSE InsertBySize(SortedBySizeDesc(SubSeq(s, 1, Len(s) - 1)), s[Len(s)])

\* Mutant of Fits: the overhead is left out of the test.
FitsNoOverhead(b, file) == b.size + file.size <= max_chunk_size

\* Mutant of Fits: the overhead of the current member count, not of the
\* count after the record is added.
FitsCurrentCount(b, file) ==
    b.size + file.size + estimate_zip_overhead(Len(b.files))
        <= max_chunk_size

\* The test of line 109 for bin b and record file.
Fits(b, file) ==
    b.size + file.size + estimate_zip_overhead(Len(b.files) + 1)
        <= max_chunk_size

\* Mutant of PlaceFile: no break after the first bin that fits, the record
\* is added to every bin that fits.
PlaceFileNoBreak(bs, file) ==
    IF \E i \in 1 .. Len(bs) :
           bs[i].size + file.size + estimate_zip_overhead(Len(bs[i].files) + 1)
               <= max_chunk_size
    THEN [i \in 1 .. Len(bs) |->
             IF bs[i].size + file.size
                    + estimate_zip_overhead(Len(bs[i].files) + 1)
                    <= max_chunk_size
             THEN [files |-> Append(bs[i].files, file),
                   size  |-> bs[i].size + file.size]
             ELSE bs[i]]
    ELSE Append(bs, [files |-> <<file>>, size |-> file.size])

\* Mutant of PlaceFile: the record goes to the last bin that fits, not
\* the first.
PlaceFileLastFit(bs, file) ==
    LET fit(i) == bs[i].size + file.size
                      + estimate_zip_overhead(Len(bs[i].files) + 1)
                      <= max_chunk_size
    IN  IF \E i \in 1 .. Len(bs) : fit(i)
        THEN LET i == CHOOSE j \in 1 .. Len(bs) :
                          /\ fit(j)
                          /\ \A k \in (j + 1) .. Len(bs) : ~fit(k)
             IN  [bs EXCEPT ![i] = [files |-> Append(bs[i].files, file),
                                    size  |-> bs[i].size + file.size]]
        ELSE Append(bs, [files |-> <<file>>, size |-> file.size])

\* Mutant of PlaceFile: a record that cannot fit any bin, even alone, is
\* rejected instead of being given a bin of its own.
PlaceFileRejectOversized(bs, file) ==
    LET fit(i) == bs[i].size + file.size
                      + estimate_zip_overhead(Len(bs[i].files) + 1)
                      <= max_chunk_size
    IN  IF \E i \in 1 .. Len(bs) : fit(i)
        THEN LET i == CHOOSE j \in 1 .. Len(bs) :
                          /\ fit(j)
                          /\ \A k \in 1 .. (j - 1) : ~fit(k)
             IN  [bs EXCEPT ![i] = [files |-> Append(bs[i].files, file),
                                    size  |-> bs[i].size + file.size]]
        ELSE IF file.size + estimate_zip_overhead(1) > max_chunk_size
             THEN bs
             ELSE Append(bs, [files |-> <<file>>, size |-> file.size])

\* Mutant of PlaceFile: b['size'] += file['size'] is missing.
PlaceFileNoSizeUpdate(bs, file) ==
    LET fit(i) == bs[i].size + file.size
                      + estimate_zip_overhead(Len(bs[i].files) + 1)
                      <= max_chunk_size
    IN  IF \E i \in 1 .. Len(bs) : fit(i)
        THEN LET i == CHOOSE j \in 1 .. Len(bs) :
                          /\ fit(j)
                          /\ \A k \in 1 .. (j - 1) : ~fit(k)
             IN  [bs EXCEPT ![i] = [files |-> Append(bs[i].files, file),
                                    size  |-> bs[i].size]]
        ELSE Append(bs, [files |-> <<file>>, size |-> file.size])

\* One iteration of the outer loop of bin_pack_files: the record goes to
\* the first bin that fits, or to a new bin appended to the list.
PlaceFile(bs, file) ==
    IF \E i \in 1 .. Len(bs) : Fits(bs[i], file)
    THEN LET i == CHOOSE j \in 1 .. Len(bs) :
                      /\ Fits(bs[j], file)
                      /\ \A k \in 1 .. (j - 1) : ~Fits(bs[k], file)
         IN  [bs EXCEPT ![i] = [files |-> Append(bs[i].files, file),
                                size  |-> bs[i].size + file.size]]
    ELSE Append(bs, [files |-> <<file>>, size |-> file.size])

\* bin_pack_files as a whole.
RECURSIVE PackAll(_, _)
PackAll(bs, s) ==
    IF s = <<>> THEN bs ELSE PackAll(PlaceFile(bs, Head(s)), Tail(s))

bin_pack_files(files) == PackAll(<<>>, SortedBySizeDesc(files))

\* ---------------------------------------------------------------- Init
Init ==
    /\ max_chunk_size \in MaxChunkSizes
    /\ nfiles \in 0 .. MaxFiles
    /\ size \in [1 .. nfiles -> Sizes]
    /\ pc = "run"
    /\ future = [f \in 1 .. nfiles |-> "pending"]
    /\ collected = {}
    /\ staged = {}
    /\ temp_files = <<>>
    /\ results = <<>>
    /\ todo = <<>>
    /\ bins = <<>>
    /\ wi = 0
    /\ wk = 0
    /\ wopen = FALSE
    /\ containers = <<>>
    /\ exc = "none"
    /\ log = <<>>
    /\ runReturn = <<>>

\* ------------------------------------------------------------- actions
\* Mutant of RunStart: a limit below the overhead of a single entry is
\* refused with an exception instead of a warning.
RunStartFailsOnTinyLimit ==
    /\ pc = "run"
    /\ IF max_chunk_size < estimate_zip_overhead(1)
       THEN pc' = "raise" /\ exc' = "config" /\ log' = log
       ELSE /\ pc' = "compress"
            /\ exc' = exc
            /\ log' = IF max_chunk_size < 1024
                      THEN Append(log, LogLine("warning", 0))
                      ELSE log
    /\ UNCHANGED <<max_chunk_size, nfiles, size, future, collected, staged,
                   temp_files, results, todo, bins, wi, wk, wopen,
                   containers, runReturn>>

\* run, lines 134-142: the banner, the small-limit warning, and the
\* submission of one task per file.
RunStart ==
    /\ pc = "run"
    /\ pc' = "compress"
    /\ log' = IF max_chunk_size < 1024
              THEN Append(log, LogLine("warning", 0))
              ELSE log
    /\ UNCHANGED <<max_chunk_size, nfiles, size, future, collected, staged,
                   temp_files, results, todo, bins, wi, wk, wopen,
                   containers, exc, runReturn>>

\* compress_one in a worker process.  It returns its record after writing
\* the staging file, or raises: before the staging file exists (open, read)
\* or after NamedTemporaryFile(delete=False) created it (write, close).
CompressOne(f) ==
    /\ pc = "compress"
    /\ future[f] = "pending"
    /\ \/ /\ future' = [future EXCEPT ![f] = "done"]
          /\ staged' = staged \cup {Record(f).compressed_path}
       \/ /\ future' = [future EXCEPT ![f] = "raised"]
          /\ staged' = staged
       \/ /\ future' = [future EXCEPT ![f] = "raised"]
          /\ staged' = staged \cup {Record(f).compressed_path}
    /\ UNCHANGED <<max_chunk_size, nfiles, size, pc, collected, temp_files,
                   results, todo, bins, wi, wk, wopen, containers, exc, log,
                   runReturn>>

\* as_completed loop, lines 93-97: a finished future's result is recorded.
CollectResult(f) ==
    /\ pc = "compress"
    /\ f \notin collected
    /\ future[f] = "done"
    /\ collected' = collected \cup {f}
    /\ temp_files' = Append(temp_files, Record(f))
    /\ results' = Append(results, Record(f))
    /\ UNCHANGED <<max_chunk_size, nfiles, size, pc, future, staged, todo,
                   bins, wi, wk, wopen, containers, exc, log, runReturn>>

\* Mutant of CollectError: the exception of the future is not caught and
\* leaves run.
CollectErrorAborts(f) ==
    /\ pc = "compress"
    /\ f \notin collected
    /\ future[f] = "raised"
    /\ collected' = collected \cup {f}
    /\ pc' = "raise"
    /\ exc' = "task"
    /\ UNCHANGED <<max_chunk_size, nfiles, size, future, staged, temp_files,
                   results, todo, bins, wi, wk, wopen, containers, log,
                   runReturn>>

\* as_completed loop, lines 98-99: a future that raised is only printed.
CollectError(f) ==
    /\ pc = "compress"
    /\ f \notin collected
    /\ future[f] = "raised"
    /\ collected' = collected \cup {f}
    /\ log' = Append(log, LogLine("error", f))
    /\ UNCHANGED <<max_chunk_size, nfiles, size, pc, future, staged,
                   temp_files, results, todo, bins, wi, wk, wopen,
                   containers, exc, runReturn>>

\* Mutant of PackStart: the results are returned from inside the
\* as_completed loop, as soon as one future was handled.
PackStartAfterFirst ==
    /\ pc = "compress"
    /\ (collected # {} \/ Files = {})
    /\ pc' = "pack"
    /\ todo' = SortedBySizeDesc(results)
    /\ bins' = <<>>
    /\ UNCHANGED <<max_chunk_size, nfiles, size, future, collected, staged,
                   temp_files, results, wi, wk, wopen, containers, exc, log,
                   runReturn>>

\* Mutant of PackStart: the bin list starts with one empty bin instead of
\* starting empty.
PackStartWithEmptyBin ==
    /\ pc = "compress"
    /\ collected = Files
    /\ pc' = "pack"
    /\ todo' = SortedBySizeDesc(results)
    /\ bins' = <<[files |-> <<>>, size |-> 0]>>
    /\ UNCHANGED <<max_chunk_size, nfiles, size, future, collected, staged,
                   temp_files, results, wi, wk, wopen, containers, exc, log,
                   runReturn>>

\* The as_completed loop ends when every future was yielded; run goes on to
\* bin_pack_files, which sorts the records (lines 101, 145, 104-105).
PackStart ==
    /\ pc = "compress"
    /\ collected = Files
    /\ pc' = "pack"
    /\ todo' = SortedBySizeDesc(results)
    /\ bins' = <<>>
    /\ UNCHANGED <<max_chunk_size, nfiles, size, future, collected, staged,
                   temp_files, results, wi, wk, wopen, containers, exc, log,
                   runReturn>>

\* One iteration of the loop of line 105.
PackStep ==
    /\ pc = "pack"
    /\ todo # <<>>
    /\ bins' = PlaceFile(bins, Head(todo))
    /\ todo' = Tail(todo)
    /\ UNCHANGED <<max_chunk_size, nfiles, size, pc, future, collected,
                   staged, temp_files, results, wi, wk, wopen, containers,
                   exc, log, runReturn>>

\* bin_pack_files returns, write_bins starts (lines 116, 148, 119).
WriteStart ==
    /\ pc = "pack"
    /\ todo = <<>>
    /\ pc' = "write"
    /\ wi' = 1
    /\ wk' = 0
    /\ UNCHANGED <<max_chunk_size, nfiles, size, future, collected, staged,
                   temp_files, results, todo, bins, wopen, containers, exc,
                   log, runReturn>>

\* Lines 120-124: an empty bin is skipped, otherwise ZipFile(zip_path, 'w')
\* creates (truncates) the container of bin wi.
WriteOpen ==
    /\ pc = "write"
    /\ wi <= Len(bins)
    /\ ~wopen
    /\ IF bins[wi].files = <<>>
       THEN /\ wi' = wi + 1
            /\ UNCHANGED <<wopen, containers>>
       ELSE /\ wopen' = TRUE
            /\ containers' =
                   [p \in DOMAIN containers \cup {ZipPath(wi)} |->
                       IF p = ZipPath(wi)
                       THEN [entries |-> <<>>, closed |-> FALSE,
                             stored |-> <<>>]
                       ELSE containers[p]]
            /\ wi' = wi
    /\ wk' = 0
    /\ UNCHANGED <<max_chunk_size, nfiles, size, pc, future, collected,
                   staged, temp_files, results, todo, bins, exc, log,
                   runReturn>>

\* ZipFile(zip_path, 'w') raises (permission, missing folder): nothing is
\* caught in write_bins or run, the exception leaves run.
WriteOpenFail ==
    /\ pc = "write"
    /\ wi <= Len(bins)
    /\ ~wopen
    /\ bins[wi].files # <<>>
    /\ pc' = "raise"
    /\ exc' = "write"
    /\ UNCHANGED <<max_chunk_size, nfiles, size, future, collected, staged,
                   temp_files, results, todo, bins, wi, wk, wopen,
                   containers, log, runReturn>>

\* Lines 125-128: the staging file of the next member is read and its bytes
\* are stored under the member's ZipInfo.
WriteMember ==
    /\ pc = "write"
    /\ wopen
    /\ wk < Len(bins[wi].files)
    /\ bins[wi].files[wk + 1].compressed_path \in staged
    /\ LET f    == bins[wi].files[wk + 1]
           data == StagedBytes(f.compressed_path)
       IN  containers' =
               [containers EXCEPT
                    ![ZipPath(wi)].entries = Append(@, f.arcname),
                    ![ZipPath(wi)].stored =
                        Append(@, Writestr(ZipInfo(f.arcname), data))]
    /\ wk' = wk + 1
    /\ UNCHANGED <<max_chunk_size, nfiles, size, pc, future, collected,
                   staged, temp_files, results, todo, bins, wi, wopen,
                   exc, log, runReturn>>

\* Reading the staging file or writestr raises.  The `with ZipFile` block
\* is left through ZipFile.__exit__, which closes the container: the
\* central directory of the entries written so far is written and the file
\* is a valid archive, unless the close fails as well.  Nothing catches the
\* exception.
WriteMemberFail ==
    /\ pc = "write"
    /\ wopen
    /\ wk < Len(bins[wi].files)
    /\ \E closes \in BOOLEAN :
           containers' = [containers EXCEPT ![ZipPath(wi)].closed = closes]
    /\ wopen' = FALSE
    /\ pc' = "raise"
    /\ exc' = "write"
    /\ UNCHANGED <<max_chunk_size, nfiles, size, future, collected, staged,
                   temp_files, results, todo, bins, wi, wk, log, runReturn>>

\* End of the `with ZipFile` block and lines 130-131.
WriteClose ==
    /\ pc = "write"
    /\ wopen
    /\ wk = Len(bins[wi].files)
    /\ containers' = [containers EXCEPT ![ZipPath(wi)].closed = TRUE]
    /\ wopen' = FALSE
    /\ log' = Append(log, LogLine("created", ZipPath(wi)[3]))
    /\ wi' = wi + 1
    /\ wk' = 0
    /\ UNCHANGED <<max_chunk_size, nfiles, size, pc, future, collected,
                   staged, temp_files, results, todo, bins, exc, runReturn>>

\* write_bins returns; line 150; run returns None.
RunDone ==
    /\ pc = "write"
    /\ wi > Len(bins)
    /\ pc' = "done"
    /\ log' = Append(log, LogLine("done", Len(bins)))
    /\ runReturn' = <<>>
    /\ UNCHANGED <<max_chunk_size, nfiles, size, future, collected, staged,
                   temp_files, results, todo, bins, wi, wk, wopen,
                   containers, exc>>

\* ZipChunker.__exit__, lines 71-76, on the normal and on the exceptional
\* path: the staging files of self.temp_files are removed.
Exit ==
    /\ pc \in {"done", "raise"}
    /\ pc' = "exited"
    /\ staged' = staged \ {temp_files[i].compressed_path :
                              i \in 1 .. Len(temp_files)}
    /\ UNCHANGED <<max_chunk_size, nfiles, size, future, collected,
                   temp_files, results, todo, bins, wi, wk, wopen,
                   containers, exc, log, runReturn>>

Next ==
    \/ RunStart
    \/ \E f \in Files : CompressOne(f)
    \/ \E f \in Files : CollectResult(f)
    \/ \E f \in Files : CollectError(f)
    \/ PackStart
    \/ PackStep
    \/ WriteStart
    \/ WriteOpen
    \/ WriteOpenFail
    \/ WriteMember
    \/ WriteMemberFail
    \/ WriteClose
    \/ RunDone
    \/ Exit

Spec == Init /\ [][Next]_vars

\* The main process is never stopped for good while it can take a step:
\* run starts, the as_completed loop handles a finished future, and the
\* pool is left once every future was handled.  Nothing is assumed about
\* the workers, nor about the writes.  The limit plays no part before
\* packing, the runs are those under one limit.
LiveInit == Init /\ max_chunk_size = 700

LiveSpec ==
    /\ LiveInit
    /\ [][Next]_vars
    /\ WF_vars(RunStart)
    /\ WF_vars(\E f \in Files : CollectResult(f))
    /\ WF_vars(\E f \in Files : CollectError(f))
    /\ WF_vars(PackStart)

\* A run on the folder of the regression scenario: five files of compressed
\* sizes 40KB, 35KB, 20KB, 10KB and 5KB under a limit of 64KB.
ScenarioSizes == <<40 * 1024, 35 * 1024, 20 * 1024, 10 * 1024, 5 * 1024>>

ScenarioInit ==
    /\ max_chunk_size = 64 * 1024
    /\ nfiles = Len(ScenarioSizes)
    /\ size = ScenarioSizes
    /\ pc = "run"
    /\ future = [f \in 1 .. Len(ScenarioSizes) |-> "pending"]
    /\ collected = {}
    /\ staged = {}
    /\ temp_files = <<>>
    /\ results = <<>>
    /\ todo = <<>>
    /\ bins = <<>>
    /\ wi = 0
    /\ wk = 0
    /\ wopen = FALSE
    /\ containers = <<>>
    /\ exc = "none"
    /\ log = <<>>
    /\ runReturn = <<>>

ScenarioSpec == ScenarioInit /\ [][Next]_vars

\* ------------------------------------------------ vocabulary of the claims
RECURSIVE MemberCount(_)
MemberCount(bs) ==
    IF bs = <<>> THEN 0 ELSE Len(Head(bs).files) + MemberCount(Tail(bs))

\* The places <<bin, position>> of the bin list bs that hold record r.
PlacesOf(bs, r) ==
    {ik \in (1 .. Len(bs)) \X (1 .. MaxFiles + 1) :
        /\ ik[2] <= Len(bs[ik[1]].files)
        /\ bs[ik[1]].files[ik[2]] = r}

Packed == pc \in {"write", "done", "raise", "exited"}

Succeeded == {f \in Files : future[f] = "done"}

Failed == {f \in Files : future[f] = "raised"}

ErrorLines == {i \in 1 .. Len(log) : log[i].kind = "error"}

CreatedLines == {i \in 1 .. Len(log) : log[i].kind = "created"}

\* The arcnames of the members of a bin, in insertion order.
ArcNames(b) == [k \in 1 .. Len(b.files) |-> b.files[k].arcname]

\* Which arcnames are grouped under which bin index.
Partition(bs) ==
    [i \in 1 .. Len(bs) |-> {bs[i].files[k].arcname : k \in 1 .. Len(bs[i].files)}]

\* Every order in which the records of s can be handed over.
Orders(s) ==
    {[i \in 1 .. Len(s) |-> s[p[i]]] :
        p \in {q \in [1 .. Len(s) -> 1 .. Len(s)] :
                  \A a, b \in 1 .. Len(s) : a # b => q[a] # q[b]}}

\* The places <<zip path, position>> of the stored entries.
StoredPlaces ==
    {pk \in (DOMAIN containers) \X (1 .. MaxFiles + 1) :
        pk[2] <= Len(containers[pk[1]].stored)}

StoredAt(pk) == containers[pk[1]].stored[pk[2]]

\* --------------------------------------------------------------- claims
\* C1. Completeness of packing: once bin_pack_files has returned, every
\* record of its input is a member of exactly one bin, at exactly one
\* position, and the member counts of the bins add up to the number of
\* input records.
C1_Completeness ==
    Packed =>
        /\ \A j \in 1 .. Len(results) :
               Cardinality(PlacesOf(bins, results[j])) = 1
        /\ MemberCount(bins) = Len(results)

C1_Witness ==
    /\ pc = "write"
    /\ Len(results) = 3
    /\ Len(bins) = 2

\* C2, as stated. Size bound: every bin produced satisfies
\* size + overhead(member count) <= max_chunk_size unless the limit is
\* below the overhead of a single entry (148 bytes).
C2_SizeBoundAsStated ==
    Packed =>
        \/ estimate_zip_overhead(1) > max_chunk_size
        \/ \A i \in 1 .. Len(bins) :
               bins[i].size + estimate_zip_overhead(Len(bins[i].files))
                   <= max_chunk_size

\* C2, amended. Size bound: every bin produced satisfies
\* size + overhead(member count) <= max_chunk_size, except a bin that holds
\* a single record whose own size plus the overhead of one entry exceeds
\* the limit.
C2_SizeBound ==
    Packed =>
        \A i \in 1 .. Len(bins) :
            \/ bins[i].size + estimate_zip_overhead(Len(bins[i].files))
                   <= max_chunk_size
            \/ /\ Len(bins[i].files) = 1
               /\ bins[i].files[1].size + estimate_zip_overhead(1)
                      > max_chunk_size

C2_Witness ==
    /\ pc = "write"
    /\ estimate_zip_overhead(1) <= max_chunk_size
    /\ \E i, j \in 1 .. Len(bins) :
           /\ Len(bins[i].files) = 1
           /\ bins[i].size + estimate_zip_overhead(1) > max_chunk_size
           /\ Len(bins[j].files) >= 2

\* C3. Overhead lookahead: whenever a placement step adds the record to an
\* existing bin of n members, size + record size + overhead(n + 1) is within
\* the limit at that moment; and in every state every bin of two or more
\* members satisfies size + overhead(member count) <= max_chunk_size.
C3_Lookahead ==
    /\ [][\A i \in 1 .. Len(bins) :
              (pc = "pack" /\ bins'[i] # bins[i]) =>
                  bins[i].size + Head(todo).size
                      + estimate_zip_overhead(Len(bins[i].files) + 1)
                      <= max_chunk_size]_vars
    /\ [](\A i \in 1 .. Len(bins) :
              Len(bins[i].files) >= 2 =>
                  bins[i].size + estimate_zip_overhead(Len(bins[i].files))
                      <= max_chunk_size)

C3_Witness ==
    /\ pc = "pack"
    /\ \E i \in 1 .. Len(bins) :
           /\ Len(bins[i].files) = 3
           /\ bins[i].size + estimate_zip_overhead(3) = max_chunk_size

\* C4. Determinism: the grouping of arcnames per bin index that
\* bin_pack_files produced is the one it produces for every other order in
\* which the pool could have completed the same records.
C4_Determinism ==
    (pc = "write" /\ wi = 1 /\ ~wopen) =>
        \A s \in Orders(results) :
            Partition(bin_pack_files(s)) = Partition(bins)

\* C5. Failure isolation in estimation: a task that raises neither aborts
\* the run nor cancels a sibling.  The run is only ever aborted inside
\* write_bins, after every future was handled; when the pool is done the
\* results are exactly the records of the tasks that succeeded, each once,
\* one error line was printed per failed task, and all the successful
\* records are packed.
C5_Isolation ==
    /\ pc \in {"raise", "exited"} => (wi >= 1 /\ collected = Files)
    /\ pc \notin {"run", "compress"} =>
           /\ \A f \in Files : future[f] \in {"done", "raised"}
           /\ Len(results) = Cardinality(Succeeded)
           /\ {results[j] : j \in 1 .. Len(results)}
                  = {Record(f) : f \in Succeeded}
           /\ Cardinality(ErrorLines) = Cardinality(Failed)
           /\ {log[i].arg : i \in ErrorLines} = Failed
    /\ Packed => MemberCount(bins) = Cardinality(Succeeded)

C5_Witness ==
    /\ pc = "write"
    /\ Cardinality(Failed) = 1
    /\ Cardinality(Succeeded) = 2
    /\ MemberCount(bins) = 2
    /\ Cardinality(ErrorLines) = 1

\* C6. Staging cleanup on every exit path: when the ZipChunker context has
\* exited no staging file is left on disk, and while write_bins runs the
\* staging file of every member it has not yet read is still there.
C6_StagingCleanup ==
    /\ pc = "exited" => staged = {}
    /\ (pc = "write" /\ wi <= Len(bins)) =>
           \A k \in (wk + 1) .. Len(bins[wi].files) :
               bins[wi].files[k].compressed_path \in staged

\* C7. Write failure is per bundle: when the write of bin i has failed, by
\* the end of the run the failure was reported with index i, the containers
\* of the bins before i are complete as they were, and the containers of
\* the bins after i were written.
C7_WriteFailurePerBundle ==
    (pc = "exited" /\ exc = "write") =>
        /\ \E l \in 1 .. Len(log) :
               log[l].kind = "write_error" /\ log[l].arg = wi
        /\ \A j \in 1 .. Len(bins) :
               j # wi =>
                   /\ ZipPath(j) \in DOMAIN containers
                   /\ containers[ZipPath(j)].closed
                   /\ containers[ZipPath(j)].entries = ArcNames(bins[j])

\* C8. No partial container masquerades as complete: when the write of bin
\* i failed after some but not all of its members were written, at the end
\* of the run the file of bin i is absent or is not a closed container.
C8_NoPartialContainer ==
    (/\ pc = "exited"
     /\ exc = "write"
     /\ 0 < wk
     /\ wk < Len(bins[wi].files)) =>
        \/ ZipPath(wi) \notin DOMAIN containers
        \/ ~containers[ZipPath(wi)].closed

\* C9. Failures are surfaced to the caller: when run has returned, what it
\* hands to its caller holds the number of failed estimation tasks, which
\* is the number of files found minus the number of records estimated.
C9_FailuresSurfaced ==
    pc = "done" =>
        /\ Len(runReturn) = 1
        /\ runReturn[1] = nfiles - Len(results)

\* C10. One container per bundle, in index order: as long as no write has
\* failed, the bins before the current one have their complete, closed
\* container under base_part<N>.zip, the current bin's container exists
\* exactly while it is being written and holds the members written so far,
\* no later bin has a container; and when run has returned there is one
\* "created" line per bin, the count run reports is the number of bins and
\* every estimated record is an entry of exactly one container.
C10_OneContainerPerBundle ==
    (exc = "none" /\ pc \in {"write", "done", "exited"}) =>
        /\ \A n \in 1 .. Len(bins) :
               LET path == <<"base", "_part", n, ".zip">> IN
               /\ n < wi =>
                      /\ path \in DOMAIN containers
                      /\ containers[path].closed
                      /\ containers[path].entries = ArcNames(bins[n])
               /\ (n = wi /\ wopen) =>
                      /\ path \in DOMAIN containers
                      /\ ~containers[path].closed
                      /\ containers[path].entries
                             = SubSeq(ArcNames(bins[n]), 1, wk)
               /\ (n > wi \/ (n = wi /\ ~wopen)) =>
                      path \notin DOMAIN containers
        /\ Cardinality(DOMAIN containers) = (IF wopen THEN wi ELSE wi - 1)
        /\ pc \in {"done", "exited"} =>
               /\ wi = Len(bins) + 1
               /\ Cardinality(CreatedLines) = Len(bins)
               /\ log[Len(log)] = LogLine("done", Cardinality(DOMAIN containers))
               /\ \A j \in 1 .. Len(results) :
                      Cardinality({pk \in (DOMAIN containers) \X (1 .. MaxFiles + 1) :
                          /\ pk[2] <= Len(containers[pk[1]].entries)
                          /\ containers[pk[1]].entries[pk[2]]
                                 = results[j].arcname}) = 1

C10_Witness ==
    /\ pc = "done"
    /\ exc = "none"
    /\ Len(bins) = 2
    /\ Len(results) = 3

\* C11. No recompression: every entry stored in a container holds the
\* staged compressed bytes of its file as they are, which went through one
\* compression pass, and carries the checksum computed by compress_one.
C11_NoRecompression ==
    \A pk \in StoredPlaces :
        LET e == StoredAt(pk) IN
        /\ e.payload = ZlibCompress(Data(e.filename))
        /\ Len(e.payload.layers) = 1
        /\ e.CRC = ZipInfo(e.filename).CRC

\* C12. Round-trip fidelity: reading an entry of a container back gives
\* the bytes of the original file, and the checksum recorded for the entry
\* is the CRC-32 of those original bytes.
C12_RoundTrip ==
    \A pk \in StoredPlaces :
        LET e == StoredAt(pk) IN
        /\ Inflate(e.payload) = Data(e.filename)
        /\ e.CRC = Crc32(Data(e.filename))

\* The sizes of the members of each bin, in insertion order.
MemberSizes(bs) ==
    [i \in 1 .. Len(bs) |-> [k \in 1 .. Len(bs[i].files) |-> bs[i].files[k].size]]

\* C13. Regression scenario: when all five files of the scenario were
\* estimated, the records are placed in the order 40KB, 35KB, 20KB, 10KB,
\* 5KB; after the first two placements there are two bins, 40KB and 35KB
\* alone; and the bins returned are [40KB, 20KB] and [35KB, 10KB, 5KB].
C13_Scenario ==
    Len(results) = 5 =>
        /\ (pc = "pack" /\ bins = <<>>) =>
               [k \in 1 .. Len(todo) |-> todo[k].size]
                   = <<40960, 35840, 20480, 10240, 5120>>
        /\ (pc = "pack" /\ Len(todo) = 3) =>
               MemberSizes(bins) = << <<40960>>, <<35840>> >>
        /\ Packed =>
               /\ MemberSizes(bins)
                      = << <<40960, 20480>>, <<35840, 10240, 5120>> >>
               /\ bins[1].size = 61440
               /\ bins[2].size = 51200

C13_Witness ==
    /\ pc = "write"
    /\ max_chunk_size = 65536
    /\ Len(results) = 5
    /\ estimate_zip_overhead(3) = 400
    /\ Len(bins) = 2
    /\ Len(bins[2].files) = 3

\* C14. Empty input and no empty bundles: in every state every bin of the
\* list has at least one member; bin_pack_files returns no bin for an empty
\* record set; and a run on a folder without files cannot raise and ends
\* with no error line, no container and a count of 0 bins.
C14_EmptyInput ==
    /\ \A i \in 1 .. Len(bins) : Len(bins[i].files) >= 1
    /\ (Packed /\ results = <<>>) => bins = <<>>
    /\ nfiles = 0 =>
           /\ pc # "raise"
           /\ exc = "none"
           /\ ErrorLines = {}
           /\ containers = <<>>
           /\ pc \in {"done", "exited"} =>
                  log[Len(log)] = LogLine("done", 0)

C14_Witness ==
    /\ pc = "exited"
    /\ nfiles = 0
    /\ bins = <<>>
    /\ exc = "none"

\* A placement step of bin_pack_files is being taken.
Placing == pc = "pack" /\ todo # <<>> /\ todo' = Tail(todo)

\* Bin i of the current list accepts the record about to be placed.
Accepts(i) ==
    bins[i].size + Head(todo).size
        + estimate_zip_overhead(Len(bins[i].files) + 1) <= max_chunk_size

RECURSIVE SumSizes(_)
SumSizes(fs) == IF fs = <<>> THEN 0 ELSE Head(fs).size + SumSizes(Tail(fs))

Oversized(r) == r.size + estimate_zip_overhead(1) > max_chunk_size

\* C15. First fit: a placement step adds the record to the lowest-index bin
\* that accepts it and to no other, and appends a new bin holding only the
\* record exactly when no bin accepts it; and in every state, no member of
\* a bin would be accepted by an earlier bin as that bin is now.
C15_FirstFit ==
    /\ [][Placing =>
             IF \E i \in 1 .. Len(bins) : Accepts(i)
             THEN /\ Len(bins') = Len(bins)
                  /\ \A i \in 1 .. Len(bins) :
                         IF Accepts(i) /\ \A k \in 1 .. (i - 1) : ~Accepts(k)
                         THEN bins'[i].files
                                  = Append(bins[i].files, Head(todo))
                         ELSE bins'[i] = bins[i]
             ELSE /\ Len(bins') = Len(bins) + 1
                  /\ bins'[Len(bins')].files = <<Head(todo)>>
                  /\ \A i \in 1 .. Len(bins) : bins'[i] = bins[i]]_vars
    /\ [](\A j \in 1 .. Len(bins) : \A i \in 1 .. (j - 1) :
              \A k \in 1 .. Len(bins[j].files) :
                  bins[i].size + bins[j].files[k].size
                      + estimate_zip_overhead(Len(bins[i].files) + 1)
                      > max_chunk_size)

C15_Witness ==
    /\ pc = "write"
    /\ Len(bins) = 2
    /\ Len(bins[1].files) = 2
    /\ Len(bins[2].files) = 1
    /\ bins[2].files[1].size = bins[1].files[1].size
    /\ ~Oversized(bins[2].files[1])

\* C16. Oversized record is placed alone: a record whose size plus the
\* overhead of one entry exceeds the limit is placed by appending a new
\* bin; once its turn has come it is a member of exactly one bin; and a
\* bin that holds such a record never has another member.
C16_OversizedAlone ==
    /\ [][(Placing /\ Oversized(Head(todo))) =>
             /\ Len(bins') = Len(bins) + 1
             /\ bins'[Len(bins')].files = <<Head(todo)>>]_vars
    /\ [](\A i \in 1 .. Len(bins) : \A k \in 1 .. Len(bins[i].files) :
              Oversized(bins[i].files[k]) => Len(bins[i].files) = 1)
    /\ [](\A j \in 1 .. Len(results) :
              (/\ Oversized(results[j])
               /\ \/ Packed
                  \/ /\ pc = "pack"
                     /\ \A t \in 1 .. Len(todo) : todo[t] # results[j]) =>
                  Cardinality(PlacesOf(bins, results[j])) = 1)

C16_Witness ==
    /\ pc = "write"
    /\ max_chunk_size = 700
    /\ Len(bins) = 2
    /\ Len(bins[1].files) = 1
    /\ Oversized(bins[1].files[1])
    /\ Len(bins[2].files) = 2

\* C17. Accumulator consistency: in every state the size of each bin is the
\* sum of the sizes of its members; a placement step adds exactly one
\* member overall, appends it at the end of one bin (an existing one or a
\* new last one) and leaves every other bin as it was.
C17_Accumulator ==
    /\ [](\A i \in 1 .. Len(bins) : bins[i].size = SumSizes(bins[i].files))
    /\ [][Placing =>
             /\ MemberCount(bins') = MemberCount(bins) + 1
             /\ Len(bins') \in {Len(bins), Len(bins) + 1}
             /\ \E c \in 1 .. Len(bins') :
                    /\ bins'[c].files
                           = Append(IF c <= Len(bins) THEN bins[c].files
                                    ELSE <<>>, Head(todo))
                    /\ bins'[c].size
                           = (IF c <= Len(bins) THEN bins[c].size ELSE 0)
                                 + Head(todo).size
                    /\ \A i \in 1 .. Len(bins) :
                           i # c => bins'[i] = bins[i]]_vars

C17_Witness ==
    /\ pc = "pack"
    /\ todo = <<>>
    /\ Len(bins) = 2
    /\ bins[1].size = 700
    /\ Len(bins[1].files) = 2
    /\ bins[2].size = 300

EstimationOver == pc \notin {"run", "compress"}

\* C18. Estimation barrier: bin_pack_files is entered only when no task is
\* pending and every future was handled; from then on the record set holds
\* exactly one record per task that succeeded; and whenever every task has
\* completed or failed, the run reaches packing.
C18_Barrier ==
    /\ [][(pc = "compress" /\ pc' # "compress") =>
             /\ pc' = "pack"
             /\ \A f \in Files : future[f] \in {"done", "raised"}
             /\ collected = Files]_vars
    /\ [](EstimationOver =>
              /\ \A f \in Files : future[f] # "pending"
              /\ Len(results) = Cardinality(Succeeded)
              /\ \A f \in Succeeded :
                     Cardinality({j \in 1 .. Len(results) :
                                     results[j] = Record(f)}) = 1
              /\ \A t \in 1 .. Len(todo) :
                     \E j \in 1 .. Len(results) : todo[t] = results[j])
    /\ ((\A f \in Files : future[f] # "pending") ~> EstimationOver)

C18_Witness ==
    /\ pc = "pack"
    /\ bins = <<>>
    /\ Cardinality(Succeeded) = 2
    /\ Cardinality(Failed) = 1
    /\ Len(todo) = 2
    /\ results[1].arcname > results[2].arcname

\* C19. Tiny limit is a warning, not a failure: under a limit below the
\* overhead of a single entry, run has printed the warning as its first
\* line once it has started, nothing raises before write_bins, and the
\* packing has exactly one bin per record, each of one member.
C19_TinyLimit ==
    max_chunk_size < estimate_zip_overhead(1) =>
        /\ pc # "run" => (log # <<>> /\ log[1] = LogLine("warning", 0))
        /\ pc \in {"raise", "exited"} =>
               (wi >= 1 /\ exc \in {"none", "write"})
        /\ Packed =>
               /\ Len(bins) = Len(results)
               /\ \A i \in 1 .. Len(bins) : Len(bins[i].files) = 1

C19_Witness ==
    /\ pc = "done"
    /\ max_chunk_size < estimate_zip_overhead(1)
    /\ Len(results) = 3
    /\ Len(bins) = 3

\* The size field of each bin.
PayloadTotals(bs) == [i \in 1 .. Len(bs) |-> bs[i].size]

\* C20. Shape of the packing is order-independent: the number of bins and,
\* per bin index, the member count, the size and the sequence of member
\* sizes that bin_pack_files returned are those it returns for every other
\* order in which the same records could have been handed to it.
C20_ShapeOrderIndependent ==
    (pc = "write" /\ wi = 1 /\ ~wopen) =>
        \A s \in Orders(results) :
            /\ Len(bin_pack_files(s)) = Len(bins)
            /\ MemberSizes(bin_pack_files(s)) = MemberSizes(bins)
            /\ PayloadTotals(bin_pack_files(s)) = PayloadTotals(bins)

C20_Witness ==
    /\ pc = "write"
    /\ wi = 1
    /\ ~wopen
    /\ Len(results) = 3
    /\ \E s \in Orders(results) :
           Partition(bin_pack_files(s)) # Partition(bins)

====
